---- MODULE Spec2Model ----
(***************************************************************************)
(* Timing and duration negotiation of frame-kit: Scene.add with the BGM    *)
(* fix-up pass, the video element and its derived audio track, element     *)
(* visibility, animated-property evaluation, one-shot and repeating        *)
(* animations, and MasterScene with its frame loop.                        *)
(* Times are whole time units; the code's floats are only added, compared  *)
(* and copied in the modelled parts. The frame loop multiplies and divides *)
(* them: there times are ticks and frame times exact fractions.            *)
(***************************************************************************)
EXTENDS Integers, Sequences, FiniteSets, TLC

VARIABLES
    scene,      \* the Scene under construction
    given,      \* the elements as they were when handed to Scene.add
    video,      \* a VideoElement with its derived audio track
    call,       \* the last method called on the element, with its argument
    elem,       \* an element with animated properties
    anims,      \* its AnimationManager: property -> attached animations
    fresh,      \* the element as configured, before any evaluation
    now,        \* <<t>> after an evaluation at t, <<>> before the first
    master,     \* the MasterScene
    render,     \* where MasterScene.render is, and the frame it evaluated last
    probe,      \* an animation and its progress at the time last asked
    audio,      \* an AudioElement and the effective volume last asked for
    drawn       \* the last render call and what each element did with it

vars ==
    <<scene, given, video, call, elem, anims, fresh, now, master, render,
      probe, audio, drawn>>

\* the variables each part of the model leaves alone
outsideScene ==
    <<video, call, elem, anims, fresh, now, master, render, probe, audio, drawn>>
outsideVideo ==
    <<scene, given, elem, anims, fresh, now, master, render, probe, audio, drawn>>
outsideAnim == <<scene, given, video, call, master, render, probe, audio, drawn>>
outsideTimeline == <<video, master, render, probe, audio, drawn>>
outsideMaster ==
    <<scene, given, video, call, elem, anims, fresh, now, probe, audio, drawn>>
outsideProgress ==
    <<scene, given, video, call, elem, anims, fresh, now, master, render, audio,
      drawn>>

\* ------------------------------------------------------------- bounds
MaxElems == 2
MaxStart == 1
MaxDur == 2

StartTimes == 0..MaxStart
Durations == 0..MaxDur
\* probed media lengths of loop-flagged elements
OrigDurations == {1, MaxDur}

Max(a, b) == IF a >= b THEN a ELSE b

\* ------------------------------------------------------------- elements
\* An element as Scene sees it: its class, the loop flag (absent on text
\* elements, read with getattr default False), its timing.
TextElement(s, d) ==
    [kind |-> "text", loop_until_scene_end |-> FALSE, start_time |-> s,
     duration |-> d, original_duration |-> 0]

MediaElement(k, loop, s, d, o) ==
    [kind |-> k, loop_until_scene_end |-> loop, start_time |-> s,
     duration |-> d, original_duration |-> o]

ElementInputs ==
    {TextElement(s, d) : s \in StartTimes, d \in Durations}
    \cup {MediaElement(k, FALSE, s, d, d) :
            k \in {"audio", "video"}, s \in StartTimes, d \in Durations}
    \cup {MediaElement(k, TRUE, s, d, o) :
            k \in {"audio", "video"}, s \in StartTimes, d \in Durations,
            o \in OrigDurations}

IsAudioElement(e) == e.kind = "audio"

\* The test Scene.add and Scene._update_bgm_durations make.
IsBgm(e) == IsAudioElement(e) /\ e.loop_until_scene_end

\* AudioElement.update_duration_for_scene: the element takes the scene's
\* duration when it is in loop mode.
AudioUpdateDurationForScene(e, scene_duration) ==
    IF e.loop_until_scene_end
    THEN [e EXCEPT !.duration = scene_duration]
    ELSE e

\* loop / cut / match, as update_duration_for_scene and the tests report it
Regime(e) ==
    IF e.duration > e.original_duration THEN "loop"
    ELSE IF e.duration < e.original_duration THEN "cut"
    ELSE "match"

\* ------------------------------------------------------------- AudioElement
DefaultDuration == 1
FullVolume == 10
NoAudio == [absent |-> TRUE]
MissingFile == 0

Min(a, b) == IF a <= b THEN a ELSE b

\* AudioElement(path, volume): VideoBase timing, volume as given, no fades
NewAudioElement(volume, ident) ==
    [start_time |-> 0, duration |-> DefaultDuration, volume |-> volume,
     original_volume |-> volume, fade_in_duration |-> 0,
     fade_out_duration |-> 0, is_muted |-> FALSE, ident |-> ident]

AudioSetVolume(a, volume) ==
    LET v == Max(0, Min(FullVolume, volume))
    IN  [a EXCEPT !.volume = v, !.original_volume = v]

AudioSetFadeIn(a, d) == [a EXCEPT !.fade_in_duration = Max(0, d)]

AudioSetFadeOut(a, d) == [a EXCEPT !.fade_out_duration = Max(0, d)]

AudioMute(a) == [a EXCEPT !.is_muted = TRUE]

AudioUnmute(a) == [a EXCEPT !.is_muted = FALSE]

\* AudioElement.get_effective_volume(audio_time) as the fraction num / den
\* of FullVolume tenths: 0 when muted, else the volume times the fade
\* factors, clamped to 0..FullVolume
GetEffectiveVolume(a, audio_time) ==
    IF a.is_muted THEN [num |-> 0, den |-> 1]
    ELSE LET fade_in ==
                 IF a.fade_in_duration > 0 /\ audio_time < a.fade_in_duration
                 THEN <<audio_time, a.fade_in_duration>>
                 ELSE <<1, 1>>
             fade_out_start == a.duration - a.fade_out_duration
             fade_out ==
                 IF a.fade_out_duration > 0 /\ audio_time > fade_out_start
                 THEN <<a.duration - audio_time, a.fade_out_duration>>
                 ELSE <<1, 1>>
             den == fade_in[2] * fade_out[2]
             effective_volume == a.volume * fade_in[1] * fade_out[1]
         IN  [num |-> Max(0, Min(FullVolume * den, effective_volume)),
              den |-> den]

\* ------------------------------------------------------------- VideoBase
BaseSetDuration(e, d) == [e EXCEPT !.duration = d]

BaseStartAt(e, t) == [e EXCEPT !.start_time = t]

VisibleThroughEnd(e, t) ==
    e.start_time <= t /\ t <= e.start_time + e.duration

is_visible_at(e, t) ==
    e.start_time <= t /\ t < e.start_time + e.duration

\* ------------------------------------------------------------- VideoElement
\* what the probe of a file that opens but reports no frames stands for
NoFrames == -1
\* frames per time unit of every probed video
ProbedFps == 1

\* __init__ and _load_video_info: a probed length sets duration and
\* original_duration; a missing file leaves the VideoBase default and 0 and
\* no capture, a file that opens without a frame count leaves the same
\* timing with an open capture.
NewVideoElement(probed) ==
    [start_time |-> 0,
     duration |-> IF probed > 0 THEN probed ELSE DefaultDuration,
     original_duration |-> IF probed > 0 THEN probed ELSE 0,
     video_capture |-> IF probed = MissingFile THEN "none" ELSE "opened",
     total_frames |-> IF probed > 0 THEN probed * ProbedFps ELSE 0,
     loop_until_scene_end |-> FALSE,
     audio_element |-> NoAudio,
     audio_element_created |-> FALSE,
     constructed |-> 0]

HasAudio(v) == v.audio_element # NoAudio

SyncAudioTiming(v) ==
    IF HasAudio(v)
    THEN [v EXCEPT !.audio_element =
            BaseSetDuration(BaseStartAt(v.audio_element, v.start_time),
                            v.duration)]
    ELSE v

\* _create_audio_element: AudioElement(path, volume=1.0), then the sync.
\* AudioElement's constructor handles a missing or unreadable file itself,
\* so the except branch is not taken.
CreateAudioElement(v) ==
    IF v.audio_element_created THEN v
    ELSE [SyncAudioTiming(
            [v EXCEPT
               !.audio_element = NewAudioElement(FullVolume, v.constructed + 1),
               !.constructed = v.constructed + 1])
          EXCEPT !.audio_element_created = TRUE]

EnsureAlwaysCreates(v) ==
    [SyncAudioTiming(
        [v EXCEPT
           !.audio_element = NewAudioElement(FullVolume, v.constructed + 1),
           !.constructed = v.constructed + 1])
     EXCEPT !.audio_element_created = TRUE]

EnsureAudioElement(v) ==
    IF ~v.audio_element_created THEN CreateAudioElement(v) ELSE v

VideoStartAt(v, t) ==
    SyncAudioTiming(EnsureAudioElement(BaseStartAt(v, t)))

VideoSetDuration(v, d) ==
    SyncAudioTiming(EnsureAudioElement(BaseSetDuration(v, d)))

\* the AudioElement method each forwarding setter of the video calls
ApplySetting(a, op, arg) ==
    CASE op = "set_volume" -> AudioSetVolume(a, arg)
      [] op = "set_audio_fade_in" -> AudioSetFadeIn(a, arg)
      [] op = "set_audio_fade_out" -> AudioSetFadeOut(a, arg)
      [] op = "mute_audio" -> AudioMute(a)
      [] op = "unmute_audio" -> AudioUnmute(a)

ForwardWithoutEnsure(v, op, arg) ==
    IF HasAudio(v)
    THEN [v EXCEPT !.audio_element = ApplySetting(v.audio_element, op, arg)]
    ELSE v

\* the setters that forward to the track: ensure, then apply when present
Forward(v, op, arg) ==
    LET w == EnsureAudioElement(v)
    IN  IF HasAudio(w)
        THEN [w EXCEPT !.audio_element = ApplySetting(w.audio_element, op, arg)]
        ELSE w

VideoSetVolume(v, volume) == Forward(v, "set_volume", volume)

VideoSetAudioFadeIn(v, d) == Forward(v, "set_audio_fade_in", d)

VideoSetAudioFadeOut(v, d) == Forward(v, "set_audio_fade_out", d)

VideoMuteAudio(v) == Forward(v, "mute_audio", 0)

VideoUnmuteAudio(v) == Forward(v, "unmute_audio", 0)

\* get_audio_volume returns the track's volume; its effect is the ensure
VideoGetAudioVolume(v) == EnsureAudioElement(v)

VideoSetLoopUntilSceneEnd(v, loop) ==
    [v EXCEPT !.loop_until_scene_end = loop]

UpdateIgnoresLoopFlag(v, scene_duration) ==
    IF scene_duration > 0
    THEN EnsureAudioElement(BaseSetDuration(v, scene_duration))
    ELSE v

\* update_duration_for_scene: the derived AudioElement has no
\* update_duration_for_scene of its own, so the hasattr branch is not taken.
VideoUpdateDurationForScene(v, scene_duration) ==
    IF v.loop_until_scene_end /\ scene_duration > 0
    THEN EnsureAudioElement(BaseSetDuration(v, scene_duration))
    ELSE v

\* ------------------------------------------------------------- animation
MaxAnims == 2
MaxDelay == 1
MaxTime == 3
MaxAlpha == 255

Properties == {"x", "y", "alpha", "scale", "rotation", "corner_radius"}

\* An Animation: a window (start_time, delay, duration) and a value range.
Animation(from, to, duration, delay) ==
    [start_time |-> 0, delay |-> delay, duration |-> duration,
     from_value |-> from, to_value |-> to]

NewAnimationManager == [p \in Properties |-> <<>>]

AddAnimation(m, p, a) == [m EXCEPT ![p] = Append(@, a)]

HasStarted(a, t) == t >= a.start_time + a.delay

ElapsedUnclamped(a, t) == t - a.start_time - a.delay

\* progress(t) times duration, clamped to the window
Elapsed(a, t) == Max(0, Min(a.duration, t - a.start_time - a.delay))

\* Animation.progress(t) as the fraction num / den
Progress(a, t) == [num |-> Elapsed(a, t), den |-> a.duration]

\* linear sample: from_value + (to_value - from_value) * progress(t)
Sample(a, t) ==
    a.from_value + ((a.to_value - a.from_value) * Elapsed(a, t)) \div a.duration

\* ------------------------------------------------------------- RepeatingAnimation
Infinite == -1
Unresolved == <<>>
RepeatModes == {"restart", "reverse", "continue"}

\* RepeatingAnimation(base_animation, repeat_count, repeat_delay,
\* repeat_mode, until_scene_end, scene_duration); scene_duration is <<d>>
\* once resolved
RepeatingAnimation(base, count, repeat_delay, mode, until_end, scene_duration) ==
    [start_time |-> 0, base_animation |-> base, repeat_count |-> count,
     repeat_delay |-> repeat_delay, repeat_mode |-> mode,
     until_scene_end |-> until_end, scene_duration |-> scene_duration]

IsRepeating(a) == "base_animation" \in DOMAIN a

Period(r) == r.base_animation.duration + r.repeat_delay

\* a finite repeat_count whose last repetition is over at t
RepeatsOver(r, t) ==
    /\ ~r.until_scene_end
    /\ r.repeat_count # Infinite
    /\ (t - r.start_time) \div Period(r) >= r.repeat_count

\* k = floor((t - start_time) / period), the last repetition once all are over
RepeatIndex(r, t) ==
    IF RepeatsOver(r, t) THEN r.repeat_count - 1
    ELSE (t - r.start_time) \div Period(r)

\* time into repetition k, held at the base duration through repeat_delay
RepeatElapsed(r, t) ==
    IF RepeatsOver(r, t) THEN r.base_animation.duration
    ELSE Min(r.base_animation.duration,
             (t - r.start_time) - RepeatIndex(r, t) * Period(r))

\* the base animation as repetition k plays it
Repetition(r, k) ==
    LET b == r.base_animation
        span == b.to_value - b.from_value
    IN  CASE r.repeat_mode = "restart" -> b
          [] r.repeat_mode = "reverse" ->
               IF k % 2 = 1
               THEN [b EXCEPT !.from_value = b.to_value,
                              !.to_value = b.from_value]
               ELSE b
          [] r.repeat_mode = "continue" ->
               [b EXCEPT !.from_value = @ + k * span,
                         !.to_value = @ + k * span]

\* RepeatingAnimation.get_value: the periodic rule
RepeatSample(r, t) ==
    LET b == Repetition(r, RepeatIndex(r, t))
    IN  b.from_value
          + ((b.to_value - b.from_value) * RepeatElapsed(r, t)) \div b.duration

\* whether a repeating animation contributes at t: from its start_time on;
\* until_scene_end only inside [start_time, start_time + scene_duration),
\* and not at all while scene_duration is unresolved
RepeatApplies(r, t) ==
    /\ t >= r.start_time
    /\ r.until_scene_end =>
         /\ r.scene_duration # Unresolved
         /\ t < r.start_time + r.scene_duration[1]

Applies(a, t) == IF IsRepeating(a) THEN RepeatApplies(a, t) ELSE HasStarted(a, t)

ValueAt(a, t) == IF IsRepeating(a) THEN RepeatSample(a, t) ELSE Sample(a, t)

\* AnimationManager.get_animated_value: the most recently attached animation
\* that applies at t decides; base_value when none does.
GetAnimatedValue(m, p, t, base_value) ==
    LET started == {i \in 1..Len(m[p]) : Applies(m[p][i], t)}
    IN  IF started = {} THEN base_value
        ELSE ValueAt(m[p][CHOOSE i \in started : \A j \in started : j <= i], t)

\* VideoBase.__init__
NewElement ==
    [start_time |-> 0, duration |-> DefaultDuration, x |-> 0, y |-> 0, base_x |-> 0, base_y |-> 0,
     base_alpha |-> MaxAlpha, background_alpha |-> MaxAlpha,
     base_scale |-> 1, scale |-> 1, rotation |-> 0, corner_radius |-> 0]

AttachUnshifted(e, m, p, a) == AddAnimation(m, p, a)

AttachFirst(e, m, p, a) ==
    [m EXCEPT ![p] = <<[a EXCEPT !.start_time = @ + e.start_time]>> \o @]

\* VideoBase.animate: the window is placed relative to the element's start
ElementAnimate(e, m, p, a) ==
    AddAnimation(m, p, [a EXCEPT !.start_time = @ + e.start_time])

\* VideoBase.animate_position: animate('x', animation) and / or
\* animate('y', animation) with the one animation object, whose start_time
\* each call advances; with 'both' the two lists hold that object after
\* both calls
ElementAnimatePosition(e, m, a, axis) ==
    LET once == [a EXCEPT !.start_time = @ + e.start_time]
        twice == [once EXCEPT !.start_time = @ + e.start_time]
    IN  CASE axis = "x" -> AddAnimation(m, "x", once)
          [] axis = "y" -> AddAnimation(m, "y", once)
          [] axis = "both" ->
               AddAnimation(AddAnimation(m, "x", twice), "y", twice)

\* VideoBase.animate_repeating
RepeatingAlwaysRestarts(e, m, p, a, count, repeat_delay, mode) ==
    LET r == RepeatingAnimation(a, count, repeat_delay, "restart", FALSE,
                                Unresolved)
    IN  AddAnimation(m, p, [r EXCEPT !.start_time = @ + e.start_time])

ElementAnimateRepeating(e, m, p, a, count, repeat_delay, mode) ==
    LET r == RepeatingAnimation(a, count, repeat_delay, mode, FALSE, Unresolved)
    IN  AddAnimation(m, p, [r EXCEPT !.start_time = @ + e.start_time])

\* VideoBase.animate_until_scene_end: a missing scene_duration is replaced
\* by the element's own duration
ElementAnimateUntilSceneEnd(e, m, p, a, repeat_delay, mode, scene_duration) ==
    LET sd == IF scene_duration = Unresolved THEN <<e.duration>>
              ELSE scene_duration
        r == RepeatingAnimation(a, Infinite, repeat_delay, mode, TRUE, sd)
    IN  AddAnimation(m, p, [r EXCEPT !.start_time = @ + e.start_time])

GetAnimatedPropertiesUnclamped(e, m, t) ==
    [x |-> GetAnimatedValue(m, "x", t, e.base_x),
     y |-> GetAnimatedValue(m, "y", t, e.base_y),
     alpha |-> GetAnimatedValue(m, "alpha", t, e.base_alpha),
     scale |-> GetAnimatedValue(m, "scale", t, e.base_scale),
     rotation |-> GetAnimatedValue(m, "rotation", t, e.rotation),
     corner_radius |-> GetAnimatedValue(m, "corner_radius", t, e.corner_radius)]

GetAnimatedPropertiesCrossed(e, m, t) ==
    [x |-> GetAnimatedValue(m, "x", t, e.base_x),
     y |-> GetAnimatedValue(m, "x", t, e.base_y),
     alpha |-> Max(0, Min(MaxAlpha, GetAnimatedValue(m, "scale", t, e.base_alpha))),
     scale |-> Max(0, GetAnimatedValue(m, "scale", t, e.base_scale)),
     rotation |-> GetAnimatedValue(m, "rotation", t, e.rotation),
     corner_radius |->
        Max(0, GetAnimatedValue(m, "corner_radius", t, e.corner_radius))]

\* VideoBase.position: the base position follows
ElementPosition(e, x, y) ==
    [e EXCEPT !.x = x, !.y = y, !.base_x = x, !.base_y = y]

\* VideoBase.set_background: the alpha goes to background_alpha only
ElementSetBackground(e, alpha) == [e EXCEPT !.background_alpha = alpha]

\* ImageElement.set_scale, VideoElement.set_scale
ElementSetScale(e, scale) == [e EXCEPT !.scale = scale]

\* VideoBase.set_corner_radius
SetCornerRadiusTo(e, radius) == [e EXCEPT !.corner_radius = Max(0, radius)]

GetAnimatedProperties(e, m, t) ==
    [x |-> GetAnimatedValue(m, "x", t, e.base_x),
     y |-> GetAnimatedValue(m, "y", t, e.base_y),
     alpha |-> Max(0, Min(MaxAlpha, GetAnimatedValue(m, "alpha", t, e.base_alpha))),
     scale |-> Max(0, GetAnimatedValue(m, "scale", t, e.base_scale)),
     rotation |-> GetAnimatedValue(m, "rotation", t, e.rotation),
     corner_radius |->
        Max(0, GetAnimatedValue(m, "corner_radius", t, e.corner_radius))]

UpdateAnimatedProperties(e, m, t) ==
    LET props == GetAnimatedProperties(e, m, t)
    IN  [e EXCEPT !.x = props.x, !.y = props.y,
                  !.background_alpha = props.alpha, !.scale = props.scale,
                  !.rotation = props.rotation,
                  !.corner_radius = props.corner_radius]

NoEval == <<>>

NoAnimation ==
    /\ elem = NewElement
    /\ anims = NewAnimationManager
    /\ fresh = NewElement
    /\ now = NoEval

\* ------------------------------------------------------------- Scene
NewScene == [elements |-> <<>>, start_time |-> 0, duration |-> 0]

UpdateOnlyLast(els, d) ==
    [i \in 1..Len(els) |->
        IF i = Len(els) /\ IsBgm(els[i])
        THEN AudioUpdateDurationForScene(els[i], d)
        ELSE els[i]]

UpdateBgmDurations(els, d) ==
    [i \in 1..Len(els) |->
        IF IsBgm(els[i])
        THEN AudioUpdateDurationForScene(els[i], d)
        ELSE els[i]]

DurationAfterAdd(d, e) ==
    IF ~IsBgm(e)
    THEN Max(d, e.start_time + e.duration)
    ELSE d

\* Scene.add of src/src/scene.py, the Scene with the BGM pass
SceneAdd(s, e) ==
    LET d == DurationAfterAdd(s.duration, e)
    IN  [s EXCEPT !.elements = UpdateBgmDurations(Append(s.elements, e), d),
                  !.duration = d]

SceneStartAt(s, t) == [s EXCEPT !.start_time = t]

\* ------------------------------------------------------------- MasterScene
\* The master's times are counted in ticks, TicksPerSecond of them to the
\* second, so that total_duration * fps need not be whole; fps is frames
\* per second. Products and quotients are exact, not floating point.
MaxScenes == 2
MaxFps == 3
TicksPerSecond == 2

NewMasterScene(fps) ==
    [fps |-> fps, scenes |-> <<>>, total_duration |-> 0,
     audio_elements |-> <<>>]

CollectWithVideos(m, s) ==
    [m EXCEPT !.audio_elements =
        @ \o SelectSeq(s.elements, LAMBDA e : e.kind \in {"audio", "video"})]

\* MasterScene._collect_audio_elements: the scene's AudioElement instances,
\* in list order, go to the end of audio_elements
CollectAudioElements(m, s) ==
    [m EXCEPT !.audio_elements = @ \o SelectSeq(s.elements, IsAudioElement)]

MasterAddLastWins(m, s) ==
    CollectAudioElements(
        [m EXCEPT !.scenes = Append(@, s),
                  !.total_duration = s.start_time + s.duration], s)

\* MasterScene.add: append, raise total_duration to the scene's end, then
\* collect the scene's audio elements
MasterAdd(m, s) ==
    LET scene_end_time == s.start_time + s.duration
    IN  CollectAudioElements(
            [m EXCEPT !.scenes = Append(@, s),
                      !.total_duration = Max(@, scene_end_time)], s)

TotalFramesRoundedUp(m) ==
    (m.total_duration * m.fps + TicksPerSecond - 1) \div TicksPerSecond

\* int(self.total_duration * self.fps), total_duration being in ticks
TotalFrames(m) == (m.total_duration * m.fps) \div TicksPerSecond

\* frame_num / self.fps seconds, as an exact fraction of ticks
CurrentTime(m, frame_num) ==
    [num |-> frame_num * TicksPerSecond, den |-> m.fps]

\* Scene.render(time): whether the scene passes the frame on to its
\* elements, i.e. 0 <= time - start_time <= duration
SceneRenders(s, time) ==
    LET scene_time == time.num - s.start_time * time.den
    IN  ~(scene_time < 0 \/ scene_time > s.duration * time.den)

\* the body of the frame loop: every scene of the master, in list order
RenderScenes(m, time) ==
    [i \in 1..Len(m.scenes) |->
        [scene |-> i, drawn |-> SceneRenders(m.scenes[i], time)]]

NoFrame == [num |-> 0, den |-> 1]

\* render has not been called: log lists the clean-up steps taken, in
\* order, output names the file render ends with
NotRendering ==
    [pc |-> "setup", total_frames |-> 0, frame_num |-> 0,
     current_time |-> NoFrame, asked |-> <<>>, log |-> <<>>,
     output |-> "none"]

\* how the audio mix can go once it is started: subprocess missing, ffmpeg
\* not installed, none of the audio files on disk, ffmpeg returning an
\* error, the call raising, or the mix written
MixOutcomes ==
    {"no_subprocess", "no_ffmpeg", "no_valid_files", "ffmpeg_failed",
     "ffmpeg_raised", "mixed"}

\* MasterScene._create_audio_mix: the path it returns
CreateAudioMix(m, env) ==
    IF m.audio_elements = <<>> THEN "video_only"
    ELSE IF env = "mixed" THEN "final"
    ELSE "video_only"

\* the finally block of render: release the writer, quit the display, then
\* mix the audio if there are audio elements
Finally(r, m, env) ==
    IF m.audio_elements # <<>>
    THEN [r EXCEPT !.log = @ \o <<"release", "quit", "mix">>,
                   !.output = CreateAudioMix(m, env)]
    ELSE [r EXCEPT !.log = @ \o <<"release", "quit">>,
                   !.output = "video_only"]

RaiseSkipsFinally(r, m, env) == [r EXCEPT !.pc = "failed"]

\* an exception in the frame loop: the finally block runs, then the
\* exception leaves render
AfterRaise(r, m, env) == [Finally(r, m, env) EXCEPT !.pc = "failed"]

NoRender == master = NewMasterScene(MaxFps) /\ render = NotRendering

NoProbe == probe = <<>>

NoSound == audio = <<>>

NoDrawing == drawn = <<>>

\* ------------------------------------------------------------- actions
NoCall == [op |-> "none", arg |-> 0]

InitScene ==
    /\ scene = NewScene
    /\ given = <<>>
    /\ video = NewVideoElement(MissingFile)
    /\ call = NoCall
    /\ NoAnimation
    /\ NoRender
    /\ NoProbe
    /\ NoSound
    /\ NoDrawing

Add(e) ==
    /\ Len(scene.elements) < MaxElems
    /\ scene' = SceneAdd(scene, e)
    /\ given' = Append(given, e)
    /\ UNCHANGED outsideScene

NextScene == \E e \in ElementInputs : Add(e)

SpecScene == InitScene /\ [][NextScene]_vars

\* ------------------------------------------------------------- video actions
ProbeResults == {MissingFile} \cup (1..MaxDur)
VolumeInputs == {-5, 0, 5, FullVolume, 2 * FullVolume}
FadeInputs == -1..1
SceneDurations == 0..(MaxStart + MaxDur)

InitVideo ==
    /\ scene = NewScene
    /\ given = <<>>
    /\ \E probed \in ProbeResults : video = NewVideoElement(probed)
    /\ call = NoCall
    /\ NoAnimation
    /\ NoRender
    /\ NoProbe
    /\ NoSound
    /\ NoDrawing

Called(op, arg, v) ==
    /\ video' = v
    /\ call' = [op |-> op, arg |-> arg]
    /\ UNCHANGED outsideVideo

StartAt == \E t \in StartTimes : Called("start_at", t, VideoStartAt(video, t))

SetDuration ==
    \E d \in Durations : Called("set_duration", d, VideoSetDuration(video, d))

SetVolume ==
    \E x \in VolumeInputs : Called("set_volume", x, VideoSetVolume(video, x))

SetAudioFadeIn ==
    \E d \in FadeInputs :
        Called("set_audio_fade_in", d, VideoSetAudioFadeIn(video, d))

SetAudioFadeOut ==
    \E d \in FadeInputs :
        Called("set_audio_fade_out", d, VideoSetAudioFadeOut(video, d))

MuteAudio == Called("mute_audio", 0, VideoMuteAudio(video))

UnmuteAudio == Called("unmute_audio", 0, VideoUnmuteAudio(video))

GetAudioVolume == Called("get_audio_volume", 0, VideoGetAudioVolume(video))

SetLoopUntilSceneEnd ==
    \E b \in BOOLEAN :
        Called("set_loop_until_scene_end", IF b THEN 1 ELSE 0,
               VideoSetLoopUntilSceneEnd(video, b))

UpdateDurationForScene ==
    \E sd \in SceneDurations :
        Called("update_duration_for_scene", sd,
               VideoUpdateDurationForScene(video, sd))

NextVideo ==
    \/ StartAt
    \/ SetDuration
    \/ SetVolume
    \/ SetAudioFadeIn
    \/ SetAudioFadeOut
    \/ MuteAudio
    \/ UnmuteAudio
    \/ GetAudioVolume
    \/ SetLoopUntilSceneEnd
    \/ UpdateDurationForScene

SpecVideo == InitVideo /\ [][NextVideo]_vars

\* C30: set_duration, start_at and update_duration_for_scene leave
\* original_duration as the constructor's probe set it, and
\* update_duration_for_scene on a video that is not in loop mode, or with a
\* scene duration that is not positive, leaves every field of the video as
\* it was.
C30_OriginalDurationFixed ==
    [][/\ call'.op \in {"set_duration", "start_at",
                        "update_duration_for_scene"} =>
             video'.original_duration = video.original_duration
       /\ (/\ call'.op = "update_duration_for_scene"
           /\ (~video.loop_until_scene_end \/ call'.arg <= 0)) =>
             video' = video]_vars

\* a looping video resized by its scene: duration follows the scene,
\* original_duration is still the probed length
C30_Witness ==
    /\ call.op = "update_duration_for_scene"
    /\ video.loop_until_scene_end
    /\ call.arg > 0
    /\ video.duration = call.arg
    /\ video.original_duration > 0
    /\ video.original_duration # video.duration

\* ------------------------------------------------------------- master actions
\* a Scene as the scripts build it: elements added, then start_at
SceneInputs ==
    {SceneStartAt(SceneAdd(NewScene, TextElement(0, d)), s) :
        d \in Durations, s \in StartTimes}

FpsInputs == 1..MaxFps

InitMaster ==
    /\ scene = NewScene
    /\ given = <<>>
    /\ video = NewVideoElement(MissingFile)
    /\ call = NoCall
    /\ NoAnimation
    /\ \E fps \in FpsInputs : master = NewMasterScene(fps)
    /\ render = NotRendering
    /\ NoProbe
    /\ NoSound
    /\ NoDrawing

\* master.add(scene), before render is called
MasterSceneAdd ==
    /\ render.pc = "setup"
    /\ Len(master.scenes) < MaxScenes
    /\ \E s \in SceneInputs : master' = MasterAdd(master, s)
    /\ UNCHANGED <<render, outsideMaster>>

\* master.render() up to the frame loop: the frame count is fixed here
RenderStart ==
    /\ render.pc = "setup"
    /\ render' = [render EXCEPT !.pc = "frames",
                                !.total_frames = TotalFrames(master)]
    /\ UNCHANGED <<master, outsideMaster>>

\* one iteration of for frame_num in range(total_frames)
RenderFrame ==
    /\ render.pc = "frames"
    /\ render.frame_num < render.total_frames
    /\ LET time == CurrentTime(master, render.frame_num)
       IN  render' = [render EXCEPT !.frame_num = @ + 1,
                                   !.current_time = time,
                                   !.asked = RenderScenes(master, time)]
    /\ UNCHANGED <<master, outsideMaster>>

\* the range is exhausted: the loop is left and the finally block runs
RenderFinish ==
    /\ render.pc = "frames"
    /\ render.frame_num >= render.total_frames
    /\ \E env \in MixOutcomes :
         render' = [Finally(render, master, env) EXCEPT !.pc = "done"]
    /\ UNCHANGED <<master, outsideMaster>>

NextMaster == MasterSceneAdd \/ RenderStart \/ RenderFrame \/ RenderFinish

SpecMaster == InitMaster /\ [][NextMaster]_vars

\* render runs to its end once called: the loop body and the exit are
\* plain sequential code
SpecRender ==
    SpecMaster /\ WF_vars(RenderFrame) /\ WF_vars(RenderFinish)

\* ------------------------------------------------------------- master claims
RECURSIVE MaxSceneEnd(_)
\* max of start_time + duration over a sequence of scenes, 0 when empty
MaxSceneEnd(seq) ==
    IF seq = <<>> THEN 0
    ELSE Max(Head(seq).start_time + Head(seq).duration,
             MaxSceneEnd(Tail(seq)))

\* C11: after any sequence of MasterScene.add calls total_duration is the
\* maximum of start_time + duration over the added scenes, 0 when none was
\* added.
C11_TotalDurationIsMaxEnd ==
    master.total_duration = MaxSceneEnd(master.scenes)

\* a scene ending early added after one ending late: the total stays at
\* the later end
C11_Witness ==
    /\ Len(master.scenes) = 2
    /\ master.scenes[1].start_time = 1
    /\ master.scenes[1].duration = 2
    /\ master.scenes[2].start_time = 0
    /\ master.scenes[2].duration = 1
    /\ master.total_duration = 3

\* the step is an iteration of the frame loop
FrameStep == render'.frame_num # render.frame_num

\* what an iteration evaluating frame i must look like
FrameEvaluated(i) ==
    LET t == render'.current_time
    IN  /\ render'.frame_num = i + 1
        /\ t.num * master.fps = i * TicksPerSecond * t.den
        /\ t.num >= 0
        /\ t.num < master.total_duration * t.den
        /\ Len(render'.asked) = Len(master.scenes)
        /\ \A k \in 1..Len(master.scenes) : render'.asked[k].scene = k

\* C12: render evaluates exactly N = floor(total_duration * fps) frames:
\* the loop starts at frame 0, each iteration evaluates the next index i at
\* t = i / fps with 0 <= t < total_duration and asks every scene in
\* insertion order, the count at the end is N, and the loop, once entered,
\* comes to its end.
C12_FrameLoop ==
    /\ [](render.pc = "setup" => render.frame_num = 0)
    /\ [][FrameStep => FrameEvaluated(render.frame_num)]_vars
    /\ [](render.pc = "done" =>
            /\ render.frame_num * TicksPerSecond
                  <= master.total_duration * master.fps
            /\ master.total_duration * master.fps
                  < (render.frame_num + 1) * TicksPerSecond)
    /\ (render.pc = "frames") ~> (render.pc = "done")

\* 1.5 seconds at 1 frame per second: one frame, at t = 0, both scenes asked
C12_Witness ==
    /\ render.pc = "done"
    /\ master.fps = 1
    /\ master.total_duration = 3
    /\ render.frame_num = 1
    /\ render.current_time = CurrentTime(master, 0)
    /\ Len(master.scenes) = 2
    /\ Len(render.asked) = 2

\* ------------------------------------------------------------- Scene claims
InLoopMode(e) == e.loop_until_scene_end

RECURSIVE AddAll(_, _)
\* Scene().add(seq[1]).add(seq[2])... on top of scene s
AddAll(s, seq) ==
    IF seq = <<>> THEN s
    ELSE AddAll(SceneAdd(s, Head(seq)), Tail(seq))

Perms(n) == {p \in [1..n -> 1..n] : \A i, j \in 1..n : p[i] = p[j] => i = j}

Reordered(seq, p) == [i \in 1..Len(seq) |-> seq[p[i]]]

RECURSIVE MaxEnd(_)
\* max of start_time + duration over a sequence of elements, 0 when empty
MaxEnd(seq) ==
    IF seq = <<>> THEN 0
    ELSE Max(Head(seq).start_time + Head(seq).duration, MaxEnd(Tail(seq)))

NonLoop(seq) == SelectSeq(seq, LAMBDA e : ~InLoopMode(e))

\* C1: adding the same elements to a fresh Scene in any other order gives
\* the same scene.duration, and every loop-mode element the same final
\* duration and the same loop/cut regime, as the order they were added in.
C1_OrderIndependent ==
    \A p \in Perms(Len(given)) :
        LET other == AddAll(NewScene, Reordered(given, p))
        IN  /\ other.duration = scene.duration
            /\ \A i \in 1..Len(given) :
                 InLoopMode(given[p[i]]) =>
                   /\ other.elements[i].duration = scene.elements[p[i]].duration
                   /\ Regime(other.elements[i]) = Regime(scene.elements[p[i]])

\* a BGM element added first and stretched by the element added after it
C1_Witness ==
    /\ Len(given) = 2
    /\ IsBgm(given[1])
    /\ ~InLoopMode(given[2])
    /\ scene.duration = MaxStart + MaxDur
    /\ scene.elements[1].duration = scene.duration
    /\ scene.elements[1].duration # given[1].duration

\* C2: after every add, every loop-mode element in the scene has the
\* scene's current duration, whatever that duration is.
C2_LoopElementsHaveSceneDuration ==
    \A i \in 1..Len(scene.elements) :
        InLoopMode(scene.elements[i]) =>
            scene.elements[i].duration = scene.duration

\* C3: scene.duration is the maximum of start_time + duration over the
\* elements added so far that are not in loop mode, 0 for an empty scene.
C3_DurationIsMaxOverNonLoop ==
    scene.duration = MaxEnd(NonLoop(given))

\* C4: adding an element flagged loop_until_scene_end, audio or video,
\* leaves scene.duration unchanged.
C4_LoopAddKeepsDuration ==
    [][(Len(given') = Len(given) + 1 /\ InLoopMode(given'[Len(given')]))
         => scene'.duration = scene.duration]_vars

\* C5: a loop-mode element with original_duration D in a scene of duration S
\* has duration S, is in the loop regime exactly when S > D and in the cut
\* regime exactly when S < D.
C5_LoopElementRegime ==
    \A i \in 1..Len(scene.elements) :
        LET e == scene.elements[i]
        IN  InLoopMode(e) =>
              /\ e.duration = scene.duration
              /\ (Regime(e) = "loop") <=> (scene.duration > e.original_duration)
              /\ (Regime(e) = "cut") <=> (scene.duration < e.original_duration)

\* ------------------------------------------------------------- animation actions
Delays == 0..MaxDelay
AnimDurations == {2}
ValueRanges == {<<0, 100>>, <<300, -100>>}
AnimationInputs ==
    {Animation(r[1], r[2], d, w) :
        r \in ValueRanges, d \in AnimDurations, w \in Delays}
EvalTimes == 0..MaxTime

Attached == LET n[p \in Properties] == Len(anims[p])
            IN  n["x"] + n["y"] + n["alpha"] + n["scale"] + n["rotation"]
                + n["corner_radius"]

InitAnim ==
    /\ scene = NewScene
    /\ given = <<>>
    /\ video = NewVideoElement(MissingFile)
    /\ call = NoCall
    /\ NoAnimation
    /\ NoRender
    /\ NoProbe
    /\ NoSound
    /\ NoDrawing

\* element.animate(p, a), while the element is being configured
Animate ==
    /\ now = NoEval
    /\ Attached < MaxAnims
    /\ \E p \in Properties, a \in AnimationInputs :
         anims' = ElementAnimate(elem, anims, p, a)
    /\ fresh' = elem
    /\ UNCHANGED <<elem, now, outsideAnim>>

\* element.set_corner_radius(radius), while the element is being configured
RadiusInputs == {-1, 2}

SetCornerRadius ==
    /\ now = NoEval
    /\ \E radius \in RadiusInputs : elem' = SetCornerRadiusTo(elem, radius)
    /\ fresh' = elem'
    /\ UNCHANGED <<anims, now, outsideAnim>>

\* element.update_animated_properties(t): a frame, in any order of times
Evaluate ==
    /\ \E t \in EvalTimes :
         /\ elem' = UpdateAnimatedProperties(elem, anims, t)
         /\ now' = <<t>>
    /\ UNCHANGED <<anims, fresh, outsideAnim>>

NextAnim == Animate \/ SetCornerRadius \/ Evaluate

SpecAnim == InitAnim /\ [][NextAnim]_vars

\* ------------------------------------------------------------- timeline actions
\* One element is configured and animated on its scale, then placed in a
\* Scene. The base animations have no delay of their own; an element gets
\* at most one repeating animation.
PulseDurations == {1, 2}
PulseInputs == {Animation(2, 6, d, 0) : d \in PulseDurations}
FiniteRepeats == {2}
SceneDurationInputs == {Unresolved, <<MaxStart + MaxDur>>}

NoRepeating == \A i \in 1..Len(anims["scale"]) : ~IsRepeating(anims["scale"][i])

\* a call on the element while it is configured, before it is placed
Configured(op, arg, e, m) ==
    /\ given = <<>>
    /\ elem' = e
    /\ anims' = m
    /\ fresh' = e
    /\ call' = [op |-> op, arg |-> arg]
    /\ UNCHANGED <<scene, given, now, outsideTimeline>>

ElemStartAt ==
    \E t \in StartTimes : Configured("start_at", t, BaseStartAt(elem, t), anims)

ElemSetDuration ==
    \E d \in Durations :
        Configured("set_duration", d, BaseSetDuration(elem, d), anims)

\* element.animate_scale(a)
AnimateScale ==
    /\ Attached < MaxAnims
    /\ \E a \in PulseInputs :
         Configured("animate", a, elem, ElementAnimate(elem, anims, "scale", a))

\* element.animate_repeating_scale(a, repeat_count, repeat_delay, repeat_mode)
AnimateRepeatingScale ==
    /\ Attached < MaxAnims
    /\ NoRepeating
    /\ \E a \in PulseInputs, n \in FiniteRepeats, rd \in Delays,
          mode \in RepeatModes :
         Configured("animate_repeating",
                    [animation |-> a, repeat_count |-> n, repeat_delay |-> rd,
                     repeat_mode |-> mode],
                    elem,
                    ElementAnimateRepeating(elem, anims, "scale", a, n, rd, mode))

\* element.animate_until_scene_end('scale', a, repeat_delay=0,
\* repeat_mode='restart'), with or without a scene_duration
AnimateUntilSceneEnd ==
    /\ Attached < MaxAnims
    /\ NoRepeating
    /\ \E a \in PulseInputs, sd \in SceneDurationInputs :
         Configured("animate_until_scene_end",
                    [animation |-> a, scene_duration |-> sd],
                    elem,
                    ElementAnimateUntilSceneEnd(elem, anims, "scale", a, 0,
                                                "restart", sd))

NextTimeline ==
    \/ ElemStartAt
    \/ ElemSetDuration
    \/ AnimateScale
    \/ AnimateRepeatingScale
    \/ AnimateUntilSceneEnd

SpecTimeline == InitAnim /\ [][NextTimeline]_vars

\* ------------------------------------------------------------- placing the element
\* The element as Scene.add reads it: a text element, or a video or an
\* audio element after set_loop_until_scene_end(True).
OwnerViews(e) ==
    {TextElement(e.start_time, e.duration),
     MediaElement("video", TRUE, e.start_time, e.duration, MaxDur),
     MediaElement("audio", TRUE, e.start_time, e.duration, MaxDur)}

\* update_duration_for_scene of a loop-mode audio element also hands the
\* scene's duration to the until_scene_end animations the element owns
ResolveSceneDuration(m, d) ==
    [p \in Properties |->
        [i \in 1..Len(m[p]) |->
            IF IsRepeating(m[p][i]) /\ m[p][i].until_scene_end
            THEN [m[p][i] EXCEPT !.scene_duration = <<d>>]
            ELSE m[p][i]]]

\* scene.add(e) on the scene holding the element (its first element): the
\* BGM pass reaches the element only when it is a loop-mode AudioElement
PlacedAdd(e) ==
    LET s == SceneAdd(scene, e)
        owner == s.elements[1]
    IN  /\ scene' = s
        /\ given' = Append(given, e)
        /\ elem' = IF IsBgm(owner)
                   THEN [elem EXCEPT !.duration = owner.duration]
                   ELSE elem
        /\ anims' = IF IsBgm(owner)
                    THEN ResolveSceneDuration(anims, s.duration)
                    ELSE anims
        /\ UNCHANGED <<fresh, now, call, outsideTimeline>>

\* scene.add(element)
PlaceInScene ==
    /\ given = <<>>
    /\ \E view \in OwnerViews(elem) : PlacedAdd(view)

\* scene.add(text) after the element
AddBeside ==
    /\ given # <<>>
    /\ Len(scene.elements) < MaxElems
    /\ \E d \in Durations : PlacedAdd(TextElement(0, d))

NextPlaced ==
    \/ ElemStartAt
    \/ ElemSetDuration
    \/ AnimateUntilSceneEnd
    \/ PlaceInScene
    \/ AddBeside

SpecPlaced == InitAnim /\ [][NextPlaced]_vars

\* C14: once the element is in the Scene and is in loop mode, after each
\* Scene.add every until_scene_end animation it owns has scene_duration
\* equal to the scene's current duration.
C14_SceneDurationPropagated ==
    (given # <<>> /\ InLoopMode(given[1])) =>
        \A i \in 1..Len(anims["scale"]) :
            (IsRepeating(anims["scale"][i])
               /\ anims["scale"][i].until_scene_end) =>
                anims["scale"][i].scene_duration = <<scene.duration>>

\* ------------------------------------------------------------- timeline claims
LastAttached == anims["scale"][Len(anims["scale"])]

\* C15: after animate_until_scene_end without a scene_duration, and before
\* the element is added to a Scene, the animation's scene_duration is
\* unresolved, it is inactive at every t, and the property evaluates to
\* its base value.
C15_InactiveUntilPlaced ==
    (/\ given = <<>>
     /\ call.op = "animate_until_scene_end"
     /\ call.arg.scene_duration = Unresolved) =>
        /\ LastAttached.scene_duration = Unresolved
        /\ \A t \in (-1)..(MaxStart + MaxDur + MaxDur + 1) :
             /\ ~Applies(LastAttached, t)
             /\ GetAnimatedProperties(elem, anims, t).scale = elem.base_scale

\* C13: animate(property, a) attaches a with its start_time advanced by
\* exactly the element's start_time of that moment, animate_repeating does
\* the same for the repeating animation it builds, and start_at on the
\* element leaves every attached animation as it is.
C13_WindowFixedAtAttach ==
    /\ [][call'.op = "animate" =>
            /\ anims'["scale"] =
                 Append(anims["scale"],
                        [call'.arg EXCEPT !.start_time = @ + elem.start_time])
            /\ elem' = elem]_vars
    /\ [][call'.op = "animate_repeating" =>
            /\ Len(anims'["scale"]) = Len(anims["scale"]) + 1
            /\ anims'["scale"][Len(anims'["scale"])].start_time
                 = elem.start_time]_vars
    /\ [][call'.op = "start_at" =>
            /\ anims' = anims
            /\ elem'.start_time = call'.arg]_vars

\* animate at start 1, then start_at(0): the animation stays at 1
C13_Witness ==
    /\ call = [op |-> "start_at", arg |-> 0]
    /\ elem.start_time = 0
    /\ Len(anims["scale"]) = 2
    /\ anims["scale"][1].start_time = 0
    /\ anims["scale"][2].start_time = 1

\* C20: after animate_repeating with repeat_mode reverse and repeat_count 2,
\* for every duration and repeat_delay, the property is at to_value at
\* start_time + duration and at from_value at start_time + period +
\* duration, period being duration + repeat_delay.
C20_ReverseEndsWhereItBegan ==
    (/\ call.op = "animate_repeating"
     /\ call.arg.repeat_mode = "reverse"
     /\ call.arg.repeat_count = 2) =>
        LET a == call.arg.animation
            r == LastAttached
            period == a.duration + call.arg.repeat_delay
            end0 == r.start_time + a.duration
            end1 == r.start_time + period + a.duration
        IN  /\ IsRepeating(r)
            /\ ValueAt(r, end0) = a.to_value
            /\ ValueAt(r, end1) = a.from_value
            /\ GetAnimatedProperties(elem, anims, end0).scale = a.to_value
            /\ GetAnimatedProperties(elem, anims, end1).scale = a.from_value

\* a reversing pulse of duration 2 with repeat_delay 1 on an element
\* starting at 1: at 6 at time 3, back at 2 at time 6
C20_Witness ==
    /\ call.op = "animate_repeating"
    /\ call.arg.repeat_mode = "reverse"
    /\ call.arg.repeat_delay = 1
    /\ call.arg.animation.duration = 2
    /\ elem.start_time = 1
    /\ Len(anims["scale"]) = 1
    /\ GetAnimatedProperties(elem, anims, 3).scale = 6
    /\ GetAnimatedProperties(elem, anims, 6).scale = 2

\* ------------------------------------------------------------- progress
ProgressInputs ==
    {Animation(r[1], r[2], d, w) :
        r \in ValueRanges, d \in 1..MaxDur, w \in Delays}
ProgressTimes == (-1)..(MaxStart + MaxDelay + MaxDur + 1)

\* element.start_at(s).animate('x', a): the animation as it is attached
AnimationAttachedAt(s, a) ==
    ElementAnimate(BaseStartAt(NewElement, s), NewAnimationManager, "x", a)["x"][1]

InitProgress ==
    /\ scene = NewScene
    /\ given = <<>>
    /\ video = NewVideoElement(MissingFile)
    /\ call = NoCall
    /\ NoAnimation
    /\ NoRender
    /\ \E s \in StartTimes, a \in ProgressInputs :
         probe = [animation |-> AnimationAttachedAt(s, a), at |-> <<>>,
                  progress |-> Progress(AnimationAttachedAt(s, a), s)]
    /\ NoSound
    /\ NoDrawing

\* animation.progress(t)
AskProgress ==
    /\ \E t \in ProgressTimes :
         probe' = [probe EXCEPT !.at = <<t>>,
                                !.progress = Progress(probe.animation, t)]
    /\ UNCHANGED outsideProgress

NextProgress == AskProgress

SpecProgress == InitProgress /\ [][NextProgress]_vars

\* C19: progress is 0 at start_time + delay and before, 1 at start_time +
\* delay + duration and after, between 0 and 1 throughout, and a later t
\* never gives a smaller progress.
C19_ProgressClamped ==
    /\ [](probe.at # <<>> =>
            LET a == probe.animation
                t == probe.at[1]
                u == probe.progress
                begin == a.start_time + a.delay
            IN  /\ a.duration > 0 /\ a.delay >= 0 /\ u.den = a.duration
                /\ t <= begin => u.num = 0
                /\ t >= begin + a.duration => u.num = u.den
                /\ 0 <= u.num /\ u.num <= u.den)
    /\ [][(probe.at # <<>> /\ probe.at[1] <= probe'.at[1]) =>
            probe.progress.num <= probe'.progress.num]_vars

\* an animation with delay 1 on an element starting at 1, asked at its end
C19_Witness ==
    /\ probe.at = <<4>>
    /\ probe.animation.start_time = 1
    /\ probe.animation.delay = 1
    /\ probe.animation.duration = 2
    /\ probe.progress = [num |-> 2, den |-> 2]

\* ------------------------------------------------------------- animation claims
Effective(e) ==
    [x |-> e.x, y |-> e.y, alpha |-> e.background_alpha, scale |-> e.scale,
     rotation |-> e.rotation, corner_radius |-> e.corner_radius]

\* C9: the properties in effect after evaluating at t are those a first
\* evaluation of the configured element at t gives, whatever was evaluated
\* before.
C9_EvaluationIgnoresHistory ==
    now # NoEval =>
        Effective(elem) =
            Effective(UpdateAnimatedProperties(fresh, anims, now[1]))

\* the base value get_animated_properties passes for property p
BaseOf(e, p) ==
    CASE p = "x" -> e.base_x
      [] p = "y" -> e.base_y
      [] p = "alpha" -> e.base_alpha
      [] p = "scale" -> e.base_scale
      [] p = "rotation" -> e.rotation
      [] p = "corner_radius" -> e.corner_radius

RECURSIVE LastStarted(_, _)
\* scanning from the most recently attached: the position of the first
\* animation whose window has begun by t, 0 when there is none
LastStarted(list, t) ==
    IF list = <<>> THEN 0
    ELSE IF t >= list[Len(list)].start_time + list[Len(list)].delay
         THEN Len(list)
         ELSE LastStarted(SubSeq(list, 1, Len(list) - 1), t)

\* what an animation shows at t once its window has begun: the linear
\* sample inside the window, to_value from the end of the window on
Held(a, t) ==
    IF t >= a.start_time + a.delay + a.duration THEN a.to_value
    ELSE a.from_value
           + ((a.to_value - a.from_value) * (t - a.start_time - a.delay))
               \div a.duration

\* C16: animate appends to the property's list, and get_value at t is the
\* sample of the most recently attached animation that has started by t,
\* an ended one holding its terminal value; base_value when none has
\* started.
C16_MostRecentStartedGoverns ==
    /\ [](\A p \in Properties, t \in EvalTimes :
            LET g == LastStarted(anims[p], t)
                v == GetAnimatedValue(anims, p, t, BaseOf(elem, p))
            IN  IF g = 0 THEN v = BaseOf(elem, p)
                ELSE v = Held(anims[p][g], t))
    /\ [][\A p \in Properties :
            anims'[p] # anims[p] =>
              /\ Len(anims'[p]) = Len(anims[p]) + 1
              /\ SubSeq(anims'[p], 1, Len(anims[p])) = anims[p]]_vars

\* a fade-in, then a second animation attached with a larger delay: the
\* first governs at 0, the second from 1 on
C16_Witness ==
    /\ anims["alpha"] = <<Animation(0, 100, 2, 0), Animation(300, -100, 2, 1)>>
    /\ GetAnimatedValue(anims, "alpha", 0, elem.base_alpha) = 0
    /\ GetAnimatedValue(anims, "alpha", 1, elem.base_alpha) = 300
    /\ GetAnimatedValue(anims, "alpha", 3, elem.base_alpha) = -100

\* C17: a property with no animation attached evaluates to exactly its
\* base value at every t, for every base value, whatever is attached to the
\* other properties.
C17_UnanimatedIsBase ==
    \A p \in Properties :
        anims[p] = <<>> =>
            \A t \in EvalTimes :
                /\ \A base \in {-1, 0, 1, MaxAlpha, MaxAlpha + 1} :
                     GetAnimatedValue(anims, p, t, base) = base
                /\ GetAnimatedProperties(elem, anims, t)[p] = BaseOf(elem, p)

\* scale is animated and has left its base, alpha is not and is at its base
C17_Witness ==
    /\ anims["alpha"] = <<>>
    /\ anims["scale"] # <<>>
    /\ now # NoEval
    /\ elem.scale # elem.base_scale
    /\ elem.background_alpha = elem.base_alpha

\* C18: at every t get_animated_properties gives alpha in 0..255, scale >= 0
\* and corner_radius >= 0, and after update_animated_properties the
\* element's background_alpha, scale and corner_radius are in the same
\* ranges, whatever the animations yield.
C18_AppliedValuesClamped ==
    /\ \A t \in EvalTimes :
         LET props == GetAnimatedProperties(elem, anims, t)
         IN  /\ props.alpha \in 0..MaxAlpha
             /\ props.scale >= 0
             /\ props.corner_radius >= 0
    /\ now # NoEval =>
         /\ elem.background_alpha \in 0..MaxAlpha
         /\ elem.scale >= 0
         /\ elem.corner_radius >= 0

\* an alpha animation at 300 and a frame there: background_alpha is 255
C18_Witness ==
    /\ now # NoEval
    /\ GetAnimatedValue(anims, "alpha", now[1], elem.base_alpha) > MaxAlpha
    /\ elem.background_alpha = MaxAlpha

\* ------------------------------------------------------------- rendering
\* What one element's render(time) did: returned at the visibility test
\* ("skipped"), returned later without drawing ("nothing"), drew ("drawn",
\* a video with the content time and frame index it sampled) or raised.
NoContent == <<>>

Skipped == [outcome |-> "skipped", video_time |-> NoContent, frame |-> NoContent]

Nothing == [outcome |-> "nothing", video_time |-> NoContent, frame |-> NoContent]

Raised == [outcome |-> "raised", video_time |-> NoContent, frame |-> NoContent]

Drew == [outcome |-> "drawn", video_time |-> NoContent, frame |-> NoContent]

DrewFrame(video_time, frame) ==
    [outcome |-> "drawn", video_time |-> <<video_time>>, frame |-> <<frame>>]

\* the elements a Scene holds besides text, as their constructors leave
\* them: AudioElement and VideoElement probe the file, ImageElement opens it
\* only when it is first drawn
AudioAt(exists, probed) ==
    [kind |-> "audio", loop_until_scene_end |-> FALSE, start_time |-> 0,
     duration |-> IF exists THEN probed ELSE DefaultDuration,
     original_duration |-> IF exists THEN probed ELSE DefaultDuration,
     exists |-> exists]

ImageAt(exists) ==
    [kind |-> "image", loop_until_scene_end |-> FALSE, start_time |-> 0,
     duration |-> DefaultDuration, original_duration |-> 0, exists |-> exists]

\* a VideoElement as the Scene holding it reads it
VideoAt(probed) ==
    LET v == NewVideoElement(probed)
    IN  [kind |-> "video", loop_until_scene_end |-> v.loop_until_scene_end,
         start_time |-> v.start_time, duration |-> v.duration,
         original_duration |-> v.original_duration,
         video_capture |-> v.video_capture, total_frames |-> v.total_frames,
         exists |-> probed # MissingFile]

\* VideoElement._get_frame_at_time: the frame index for a content time
FrameNumber(v, video_time) ==
    Max(0, Min(video_time * ProbedFps, v.total_frames - 1))

\* VideoElement.render past the visibility and capture tests: the content
\* time, wrapped in loop mode, and the frame read there; the remainder by a
\* zero original_duration raises
SampleFrame(v, time) ==
    LET video_time == time - v.start_time
        wraps == v.loop_until_scene_end /\ video_time >= v.original_duration
    IN  IF wraps /\ v.original_duration = 0 THEN Raised
        ELSE LET content == IF wraps THEN video_time % v.original_duration
                            ELSE video_time
             IN  IF v.video_capture # "opened" \/ v.total_frames = 0
                 THEN Nothing
                 ELSE DrewFrame(content, FrameNumber(v, content))

VideoRenderUnchecked(v, time) ==
    IF ~is_visible_at(v, time) THEN Skipped ELSE SampleFrame(v, time)

\* VideoElement.render: out of the window, then without a capture, nothing
\* is sampled
VideoRender(v, time) ==
    IF ~is_visible_at(v, time) THEN Skipped
    ELSE IF v.video_capture = "none" THEN Nothing
    ELSE SampleFrame(v, time)

\* ImageElement.render: the texture is made on the first draw, and not at
\* all when the file is missing
ImageRender(e, time) ==
    IF ~is_visible_at(e, time) THEN Skipped
    ELSE IF ~e.exists THEN Nothing
    ELSE Drew

\* AudioElement.render: nothing to draw
AudioRender(e, time) ==
    IF ~is_visible_at(e, time) THEN Skipped ELSE Nothing

TextRender(e, time) ==
    IF ~is_visible_at(e, time) THEN Skipped ELSE Drew

ElementRender(e, time) ==
    CASE e.kind = "text" -> TextRender(e, time)
      [] e.kind = "audio" -> AudioRender(e, time)
      [] e.kind = "image" -> ImageRender(e, time)
      [] e.kind = "video" -> VideoRender(e, time)

RECURSIVE RenderEach(_, _)
\* for element in self.elements: element.render(scene_time), left at the
\* first render that raises
RenderEach(els, scene_time) ==
    IF els = <<>> THEN <<>>
    ELSE LET first == ElementRender(Head(els), scene_time)
         IN  IF first = Raised THEN <<first>>
             ELSE <<first>> \o RenderEach(Tail(els), scene_time)

GateExclusive(s, time) ==
    LET scene_time == time - s.start_time
    IN  IF scene_time < 0 \/ scene_time >= s.duration THEN <<>>
        ELSE RenderEach(s.elements, scene_time)

\* Scene.render(time): nothing outside 0 <= time - start_time <= duration,
\* else every element at the scene-local time
SceneRender(s, time) ==
    LET scene_time == time - s.start_time
    IN  IF scene_time < 0 \/ scene_time > s.duration THEN <<>>
        ELSE RenderEach(s.elements, scene_time)

\* ------------------------------------------------------------- drawing a scene
\* A Scene is filled with elements of every class, some on paths where no
\* file is, placed, and then rendered at any time. The videos that open
\* have a length.
Constructed ==
    {TextElement(0, DefaultDuration), AudioAt(TRUE, MaxDur), AudioAt(FALSE, 0),
     ImageAt(TRUE), ImageAt(FALSE), VideoAt(MissingFile), VideoAt(1),
     VideoAt(MaxDur)}

\* set_loop_until_scene_end(True) on a video
Looped == {[e EXCEPT !.loop_until_scene_end = TRUE] :
             e \in {c \in Constructed : c.kind = "video"}}

\* start_at(s) on any of them, and set_duration on those without a file
DrawInputs ==
    {BaseStartAt(e, s) : e \in Constructed \cup Looped, s \in {0, MaxStart}}
    \cup {BaseSetDuration(e, MaxDur) :
            e \in {c \in Constructed \cup Looped : c.kind # "text" /\ ~c.exists}}

RenderTimes == (-1)..(MaxStart + MaxStart + MaxDur + 1)

\* scene.add(element), before the scene is rendered
DrawAdd ==
    /\ drawn = <<>>
    /\ \E e \in DrawInputs : Add(e)

\* scene.start_at(t), before the scene is rendered
DrawSceneStartAt ==
    /\ drawn = <<>>
    /\ \E t \in StartTimes : scene' = SceneStartAt(scene, t)
    /\ UNCHANGED <<given, outsideScene>>

\* scene.render(time)
DrawRender ==
    /\ \E time \in RenderTimes :
         drawn' = [time |-> time, outcomes |-> SceneRender(scene, time)]
    /\ UNCHANGED <<scene, given, video, call, elem, anims, fresh, now, master,
                   render, probe, audio>>

NextDraw == DrawAdd \/ DrawSceneStartAt \/ DrawRender

SpecDraw == InitScene /\ [][NextDraw]_vars

\* an element of a media class built on a path where no file is
Missing(e) == e.kind # "text" /\ ~e.exists

InSceneWindow ==
    /\ drawn.time - scene.start_time >= 0
    /\ drawn.time - scene.start_time <= scene.duration

\* C21: an audio, video or image element built on a missing file has the
\* positive default duration, counts towards scene.duration like any other
\* element, and when the scene is rendered it draws nothing and does not
\* raise, the elements after it being rendered as well.
C21_MissingFileIsHarmless ==
    /\ \A e \in {AudioAt(FALSE, 0), ImageAt(FALSE), VideoAt(MissingFile)} :
         e.duration = DefaultDuration /\ e.duration > 0
    /\ \A i \in 1..Len(scene.elements) :
         Missing(scene.elements[i]) =>
            /\ scene.elements[i] = given[i]
            /\ scene.duration >= given[i].start_time + given[i].duration
            /\ (drawn # <<>> /\ InSceneWindow) =>
                 /\ Len(drawn.outcomes) = Len(scene.elements)
                 /\ drawn.outcomes[i].outcome \in {"skipped", "nothing"}

\* a looping video without a file ahead of a text element, rendered where
\* both are visible: nothing for the video, the text is drawn
C21_Witness ==
    /\ drawn # <<>>
    /\ Len(scene.elements) = 2
    /\ scene.elements[1].kind = "video"
    /\ Missing(scene.elements[1])
    /\ scene.elements[1].loop_until_scene_end
    /\ scene.elements[2].kind = "text"
    /\ drawn.outcomes = <<Nothing, Drew>>

\* C26: Scene.render(t) passes the scene-local time t - scene.start_time to
\* every element, in insertion order, exactly when that time is in 0 ..
\* scene.duration, both ends included, and to none otherwise; an element is
\* drawn only when the scene-local time is in its window start_time <= . <
\* start_time + duration.
C26_SceneWindowGate ==
    drawn # <<>> =>
        LET scene_time == drawn.time - scene.start_time
            InWindow(e) == /\ e.start_time <= scene_time
                           /\ scene_time < e.start_time + e.duration
        IN  /\ (0 <= scene_time /\ scene_time <= scene.duration) =>
                 /\ Len(drawn.outcomes) = Len(scene.elements)
                 /\ \A i \in 1..Len(scene.elements) :
                      /\ drawn.outcomes[i] =
                           ElementRender(scene.elements[i], scene_time)
                      /\ drawn.outcomes[i] = Skipped
                           <=> ~InWindow(scene.elements[i])
            /\ ~(0 <= scene_time /\ scene_time <= scene.duration) =>
                 drawn.outcomes = <<>>
            /\ \A i \in 1..Len(drawn.outcomes) :
                 drawn.outcomes[i].outcome = "drawn" =>
                    InWindow(scene.elements[i])

\* a scene starting at 1 rendered at its very end: both elements are asked,
\* and neither is drawn there
C26_Witness ==
    /\ drawn # <<>>
    /\ scene.start_time = 1
    /\ scene.duration > 0
    /\ drawn.time = scene.start_time + scene.duration
    /\ Len(scene.elements) = 2
    /\ drawn.outcomes = <<Skipped, Skipped>>

\* ------------------------------------------------------------- rendering a video
\* A video element on any file is timed, put in loop mode, stretched to a
\* scene, and then rendered at any time.
InitLoop ==
    /\ scene = NewScene
    /\ given = <<>>
    /\ \E probed \in ProbeResults \cup {NoFrames} :
         video = NewVideoElement(probed)
    /\ call = NoCall
    /\ NoAnimation
    /\ NoRender
    /\ NoProbe
    /\ NoSound
    /\ NoDrawing

\* the calls that set the element up, before it is rendered
LoopConfigure ==
    /\ drawn = <<>>
    /\ \/ StartAt
       \/ SetDuration
       \/ SetLoopUntilSceneEnd
       \/ UpdateDurationForScene

\* video.render(time)
LoopRender ==
    /\ \E time \in RenderTimes :
         drawn' = [time |-> time, outcomes |-> <<VideoRender(video, time)>>]
    /\ UNCHANGED <<scene, given, video, call, elem, anims, fresh, now, master,
                   render, probe, audio>>

NextLoop == LoopConfigure \/ LoopRender

SpecLoop == InitLoop /\ [][NextLoop]_vars

\* C28: a loop-mode video whose file was opened, rendered at a time in its
\* window, does not raise; with tau the time since its start and D its
\* original_duration it samples content time tau when tau < D and tau mod D
\* otherwise, a time in 0 <= . < D, at a frame index in 0 .. total_frames - 1.
C28_LoopSamplesModulo ==
    (/\ drawn # <<>>
     /\ video.loop_until_scene_end
     /\ video.video_capture = "opened"
     /\ is_visible_at(video, drawn.time)) =>
        LET tau == drawn.time - video.start_time
            D == video.original_duration
            out == drawn.outcomes[1]
        IN  /\ out.outcome # "raised"
            /\ out.video_time # NoContent
            /\ out.video_time[1] = (IF tau < D THEN tau ELSE tau % D)
            /\ 0 <= out.video_time[1] /\ out.video_time[1] < D
            /\ out.frame[1] \in 0..(video.total_frames - 1)

\* ------------------------------------------------------------- configuring
\* The element is configured with its setters and animated, then evaluated
\* at any times.
PositionInputs == {<<3, 4>>}
AlphaInputs == {0, 180}
ScaleInputs == {2}

\* element.position(x, y)
Position ==
    /\ now = NoEval
    /\ \E xy \in PositionInputs : elem' = ElementPosition(elem, xy[1], xy[2])
    /\ fresh' = elem'
    /\ UNCHANGED <<anims, now, outsideAnim>>

\* element.set_background(color, alpha=alpha)
SetBackground ==
    /\ now = NoEval
    /\ \E alpha \in AlphaInputs : elem' = ElementSetBackground(elem, alpha)
    /\ fresh' = elem'
    /\ UNCHANGED <<anims, now, outsideAnim>>

\* element.set_scale(scale)
SetScale ==
    /\ now = NoEval
    /\ \E scale \in ScaleInputs : elem' = ElementSetScale(elem, scale)
    /\ fresh' = elem'
    /\ UNCHANGED <<anims, now, outsideAnim>>

\* element.animate(p, a): one animation
AnimateOnce ==
    /\ anims = NewAnimationManager
    /\ Animate

NextConfig ==
    \/ Position
    \/ SetBackground
    \/ SetScale
    \/ SetCornerRadius
    \/ AnimateOnce
    \/ Evaluate

SpecConfig == InitAnim /\ [][NextConfig]_vars

\* C22: after evaluating and applying the properties at any t, every
\* property without an animation has the value the caller configured.
C22_UnanimatedKeepsConfigured ==
    now # NoEval =>
        \A p \in Properties :
            anims[p] = <<>> => Effective(elem)[p] = Effective(fresh)[p]

\* ------------------------------------------------------------- audio actions
\* An AudioElement is constructed with any volume, configured with its
\* setters, and asked for its effective volume at any time.
AudioTimes == (-1)..(MaxDur + 1)
NotHeard == <<>>

InitAudio ==
    /\ scene = NewScene
    /\ given = <<>>
    /\ video = NewVideoElement(MissingFile)
    /\ call = NoCall
    /\ NoAnimation
    /\ NoRender
    /\ NoProbe
    /\ \E volume \in VolumeInputs :
         audio = [element |-> NewAudioElement(volume, 0), heard |-> NotHeard]
    /\ NoDrawing

\* a setter called on the element
AudioCalled(a) ==
    /\ audio' = [element |-> a, heard |-> NotHeard]
    /\ UNCHANGED <<scene, given, video, call, elem, anims, fresh, now, master,
                   render, probe, drawn>>

AudioElementSetVolume ==
    \E x \in VolumeInputs : AudioCalled(AudioSetVolume(audio.element, x))

AudioElementSetFadeIn ==
    \E d \in FadeInputs : AudioCalled(AudioSetFadeIn(audio.element, d))

AudioElementSetFadeOut ==
    \E d \in FadeInputs : AudioCalled(AudioSetFadeOut(audio.element, d))

AudioElementMute == AudioCalled(AudioMute(audio.element))

AudioElementUnmute == AudioCalled(AudioUnmute(audio.element))

AudioElementSetDuration ==
    \E d \in 1..MaxDur : AudioCalled(BaseSetDuration(audio.element, d))

\* element.get_effective_volume(t)
AskEffectiveVolume ==
    /\ \E t \in AudioTimes :
         audio' = [audio EXCEPT
                     !.heard = <<GetEffectiveVolume(audio.element, t)>>]
    /\ UNCHANGED <<scene, given, video, call, elem, anims, fresh, now, master,
                   render, probe, drawn>>

NextAudio ==
    \/ AudioElementSetVolume
    \/ AudioElementSetFadeIn
    \/ AudioElementSetFadeOut
    \/ AudioElementMute
    \/ AudioElementUnmute
    \/ AudioElementSetDuration
    \/ AskEffectiveVolume

SpecAudio == InitAudio /\ [][NextAudio]_vars

\* C23: in every state of an AudioElement, the one after construction
\* included, volume is in 0..1 and the fades are >= 0; every effective
\* volume is in 0..1, and 0 when muted; a step that only changes the mute
\* flag keeps the volume.
C23_VolumeInRange ==
    /\ [](/\ audio.element.volume \in 0..FullVolume
          /\ audio.element.fade_in_duration >= 0
          /\ audio.element.fade_out_duration >= 0
          /\ audio.heard # NotHeard =>
               /\ audio.heard[1].num >= 0
               /\ audio.heard[1].num <= FullVolume * audio.heard[1].den
               /\ audio.element.is_muted => audio.heard[1].num = 0)
    /\ [][audio'.element.is_muted # audio.element.is_muted =>
            audio'.element.volume = audio.element.volume]_vars

\* ------------------------------------------------------------- editing after add
\* A Scene is filled, added to the master, and changed afterwards: the
\* master's list holds the Scene object itself and the Scene's list the
\* element objects, so each sees what is done to the other later.
MasterRecomputes(m, s) ==
    IF m.scenes = <<>> THEN m
    ELSE [m EXCEPT !.scenes[1] = s,
                   !.total_duration = s.start_time + s.duration]

\* the master after its first scene became s: nothing but the list entry
\* changes
MasterSees(m, s) ==
    IF m.scenes = <<>> THEN m ELSE [m EXCEPT !.scenes[1] = s]

\* the scene after its first element became e
SceneSees(s, e) == [s EXCEPT !.elements[1] = e]

\* a call on the scene or on its first element
Edited(op, s) ==
    /\ scene' = s
    /\ master' = MasterSees(master, s)
    /\ call' = [op |-> op, arg |-> 0]
    /\ UNCHANGED <<given, video, elem, anims, fresh, now, render, probe, audio,
                   drawn>>

\* scene.add(TextElement), before or after master.add(scene); the elements
\* after the first start with the scene
EditSceneAdd ==
    /\ Len(scene.elements) < MaxElems
    /\ \E s \in StartTimes, d \in Durations :
         /\ scene.elements # <<>> => s = 0
         /\ Edited("scene.add", SceneAdd(scene, TextElement(s, d)))

\* scene.start_at(t)
EditSceneStartAt ==
    \E t \in StartTimes : Edited("scene.start_at", SceneStartAt(scene, t))

\* element.set_duration(d) on the scene's first element
EditElementSetDuration ==
    /\ scene.elements # <<>>
    /\ \E d \in Durations :
         Edited("element.set_duration",
                SceneSees(scene, BaseSetDuration(scene.elements[1], d)))

\* element.start_at(t) on the scene's first element
EditElementStartAt ==
    /\ scene.elements # <<>>
    /\ \E t \in StartTimes :
         Edited("element.start_at",
                SceneSees(scene, BaseStartAt(scene.elements[1], t)))

\* master.add(scene)
EditMasterAdd ==
    /\ master.scenes = <<>>
    /\ master' = MasterAdd(master, scene)
    /\ call' = [op |-> "master.add", arg |-> 0]
    /\ UNCHANGED <<scene, given, video, elem, anims, fresh, now, render, probe,
                   audio, drawn>>

NextEdit ==
    \/ EditSceneAdd
    \/ EditSceneStartAt
    \/ EditElementSetDuration
    \/ EditElementStartAt
    \/ EditMasterAdd

SpecEdit == InitMaster /\ [][NextEdit]_vars

\* C24: scene.duration changes only in Scene.add and total_duration only
\* in MasterScene.add; set_duration and start_at on an element in the scene
\* keep scene.duration, and those, Scene.start_at and Scene.add on a scene
\* in the master keep total_duration and the frame count.
C24_DurationsChangeOnlyInAdd ==
    /\ [](master.scenes # <<>> => master.scenes[1] = scene)
    /\ [][/\ scene'.duration # scene.duration => call'.op = "scene.add"
          /\ master'.total_duration # master.total_duration =>
               call'.op = "master.add"
          /\ call'.op \in {"element.set_duration", "element.start_at"} =>
               scene'.duration = scene.duration
          /\ call'.op \in {"element.set_duration", "element.start_at",
                           "scene.start_at", "scene.add"} =>
               /\ master'.total_duration = master.total_duration
               /\ TotalFrames(master') = TotalFrames(master)]_vars

\* set_duration on an element of a scene in the master: the element now
\* ends after its scene and after the master
C24_Witness ==
    /\ call.op = "element.set_duration"
    /\ master.scenes # <<>>
    /\ scene.elements[1].start_time + scene.elements[1].duration > scene.duration
    /\ scene.start_time + scene.duration = master.total_duration
    /\ master.total_duration > 0

\* ------------------------------------------------------------- position
Axes == {"x", "y", "both"}

\* element.animate_position(a, axis)
AnimatePosition ==
    \E a \in PulseInputs, axis \in Axes :
        /\ Attached + (IF axis = "both" THEN 2 ELSE 1) <= MaxAnims
        /\ Configured("animate_position", [animation |-> a, axis |-> axis],
                      elem, ElementAnimatePosition(elem, anims, a, axis))

NextPosition == ElemStartAt \/ ElemSetDuration \/ AnimatePosition

SpecPosition == InitAnim /\ [][NextPosition]_vars

\* C25: after animate_position(a, 'both') on an element with start_time s
\* the animation is attached to x and to y with one window, the window
\* animate('x', a) gives: a's start_time advanced by s once.
C25_BothAxesShiftedOnce ==
    (call.op = "animate_position" /\ call.arg.axis = "both") =>
        LET on_x == anims["x"][Len(anims["x"])]
            on_y == anims["y"][Len(anims["y"])]
            single == ElementAnimate(elem, NewAnimationManager, "x",
                                     call.arg.animation)["x"][1]
        IN  /\ on_x = on_y
            /\ on_x = single
            /\ on_x.start_time = call.arg.animation.start_time + elem.start_time

\* ------------------------------------------------------------- collecting audio
\* Scenes are filled with audio and video elements and added to the
\* master, in any order of the calls. Every element carries the number of
\* its construction as ident, every Scene object the number of its own;
\* given lists, per master.add, the Scene object added and its element list
\* at that moment.
MixKinds == {"audio", "video"}

\* the k-th element constructed, of class kind
Built(kind, k) ==
    [kind |-> kind, loop_until_scene_end |-> FALSE, start_time |-> 0,
     duration |-> DefaultDuration, original_duration |-> DefaultDuration,
     ident |-> k]

Mixing(scene_ident, built) == [scene |-> scene_ident, built |-> built]

InitMix ==
    /\ scene = NewScene
    /\ given = <<>>
    /\ video = NewVideoElement(MissingFile)
    /\ call = [op |-> "Scene", arg |-> Mixing(1, 0)]
    /\ NoAnimation
    /\ NoRender
    /\ NoProbe
    /\ NoSound
    /\ NoDrawing

\* the master's list entries that are the Scene object being filled
SeenByMaster(m, s) ==
    [m EXCEPT !.scenes =
        [k \in 1..Len(m.scenes) |->
            IF given[k].ident = call.arg.scene THEN s ELSE m.scenes[k]]]

\* scene.add(element) of a newly constructed element
MixSceneAdd ==
    /\ Len(scene.elements) < MaxElems
    /\ \E kind \in MixKinds :
         /\ scene' = SceneAdd(scene, Built(kind, call.arg.built + 1))
         /\ master' = SeenByMaster(master, scene')
    /\ call' = [op |-> "scene.add",
                arg |-> Mixing(call.arg.scene, call.arg.built + 1)]
    /\ UNCHANGED <<given, video, elem, anims, fresh, now, render, probe, audio,
                   drawn>>

\* scene = Scene(): the next Scene object, once the last one is in the
\* master
MixNewScene ==
    /\ call.arg.scene < MaxScenes
    /\ \E k \in 1..Len(given) : given[k].ident = call.arg.scene
    /\ scene' = NewScene
    /\ call' = [op |-> "Scene", arg |-> Mixing(call.arg.scene + 1, call.arg.built)]
    /\ UNCHANGED <<given, video, elem, anims, fresh, now, master, render, probe,
                   audio, drawn>>

\* master.add(scene)
MixMasterAdd ==
    /\ Len(master.scenes) < MaxScenes
    /\ master' = MasterAdd(master, scene)
    /\ given' = Append(given, [ident |-> call.arg.scene,
                               elements |-> scene.elements])
    /\ call' = [op |-> "master.add", arg |-> call.arg]
    /\ UNCHANGED <<scene, video, elem, anims, fresh, now, render, probe, audio,
                   drawn>>

NextMix == MixSceneAdd \/ MixNewScene \/ MixMasterAdd

SpecMix == InitMix /\ [][NextMix]_vars

RECURSIVE CollectedAtAdd(_)
\* the AudioElement instances of the element lists as they were at each
\* master.add, add after add
CollectedAtAdd(adds) ==
    IF adds = <<>> THEN <<>>
    ELSE SelectSeq(Head(adds).elements, IsAudioElement)
           \o CollectedAtAdd(Tail(adds))

AudioSceneInputs ==
    {SceneAdd(SceneAdd(NewScene, TextElement(0, d)), AudioAt(exists, 1)) :
        d \in Durations, exists \in BOOLEAN}

\* master.add(scene) of a scene holding an audio element
MasterAudioSceneAdd ==
    /\ render.pc = "setup"
    /\ Len(master.scenes) < MaxScenes
    /\ \E s \in AudioSceneInputs : master' = MasterAdd(master, s)
    /\ UNCHANGED <<render, outsideMaster>>

\* an iteration of the frame loop raises
RenderRaise ==
    /\ render.pc = "frames"
    /\ render.frame_num < render.total_frames
    /\ \E env \in MixOutcomes : render' = AfterRaise(render, master, env)
    /\ UNCHANGED <<master, outsideMaster>>

NextFinal ==
    \/ MasterSceneAdd
    \/ MasterAudioSceneAdd
    \/ RenderStart
    \/ RenderFrame
    \/ RenderRaise
    \/ RenderFinish

SpecFinal == InitMaster /\ [][NextFinal]_vars

\* the loop body and the exit are sequential code: render goes on until it
\* is left
SpecLeave == SpecFinal /\ WF_vars(RenderFrame) /\ WF_vars(RenderFinish)

\* how often step occurs in the log
Times(step) == Cardinality({i \in 1..Len(render.log) : render.log[i] = step})

Left == render.pc \in {"done", "failed"}

TimingSetters == {"start_at", "set_duration"}
AudioSetters ==
    {"set_volume", "set_audio_fade_in", "set_audio_fade_out", "mute_audio",
     "unmute_audio"}

SameTiming(a, b) == a.start_time = b.start_time /\ a.duration = b.duration

\* C6: the derived audio track does not exist, or it has the video's
\* start_time and duration.
C6_AudioTrackMirrorsVideo ==
    HasAudio(video) => SameTiming(video.audio_element, video)

\* what the setter named by c does to a track
Applied(c, a) ==
    CASE c.op = "set_volume" ->
           a.volume = Max(0, Min(FullVolume, c.arg))
      [] c.op = "set_audio_fade_in" -> a.fade_in_duration = Max(0, c.arg)
      [] c.op = "set_audio_fade_out" -> a.fade_out_duration = Max(0, c.arg)
      [] c.op = "mute_audio" -> a.is_muted
      [] c.op = "unmute_audio" -> ~a.is_muted

\* C7: every volume, fade and mute setter leaves a track in place that
\* carries the setting; a track that was there keeps its start_time and
\* duration, a track created by the call has the video's.
C7_SettersForward ==
    [][call'.op \in AudioSetters =>
         /\ HasAudio(video')
         /\ Applied(call', video'.audio_element)
         /\ HasAudio(video) => SameTiming(video'.audio_element,
                                          video.audio_element)
         /\ ~HasAudio(video) => SameTiming(video'.audio_element, video)
         /\ SameTiming(video', video)]_vars

\* start_at(1).set_duration(2) then set_volume(0.5): track at 1, 2, 0.5
C7_Witness ==
    /\ call = [op |-> "set_volume", arg |-> 5]
    /\ video.start_time = 1
    /\ video.duration = 2
    /\ HasAudio(video)
    /\ video.audio_element.start_time = 1
    /\ video.audio_element.duration = 2
    /\ video.audio_element.volume = 5

\* a step that creates the track does so from the video's timing of that
\* moment, and a step from a state with a track keeps that very track
TrackStep ==
    /\ (~HasAudio(video) /\ HasAudio(video')) =>
         /\ SameTiming(video'.audio_element, video')
         /\ video'.audio_element.ident = 1
    /\ HasAudio(video) =>
         /\ HasAudio(video')
         /\ video'.audio_element.ident = video.audio_element.ident
         /\ video'.constructed = video.constructed

\* C8 as stated: a new video element has no track; a track appears only in
\* a timing setter, an audio setter or update_duration_for_scene in loop
\* mode, with the video's start_time and duration of that moment; the track
\* object is never replaced.
C8_CreatedOnlyBySetters ==
    /\ ~HasAudio(video) /\ ~video.audio_element_created
    /\ [][/\ (~HasAudio(video) /\ HasAudio(video')) =>
               \/ call'.op \in TimingSetters \cup AudioSetters
               \/ /\ call'.op = "update_duration_for_scene"
                  /\ video.loop_until_scene_end
          /\ TrackStep]_vars

\* C8 amended: as above, with get_audio_volume among the calls that create
\* the track.
C8_LazyTrack ==
    /\ ~HasAudio(video) /\ ~video.audio_element_created
    /\ [][/\ (~HasAudio(video) /\ HasAudio(video')) =>
               \/ call'.op \in TimingSetters \cup AudioSetters
               \/ call'.op = "get_audio_volume"
               \/ /\ call'.op = "update_duration_for_scene"
                  /\ video.loop_until_scene_end
          /\ TrackStep]_vars

\* a track created by update_duration_for_scene on a looping video
C8_Witness ==
    /\ call.op = "update_duration_for_scene"
    /\ HasAudio(video)
    /\ video.constructed = 1
    /\ video.start_time = 0
    /\ video.duration = MaxStart + MaxDur
    /\ video.audio_element.duration = MaxStart + MaxDur

\* ------------------------------------------------------------- visibility
ProbeTimes == (-1)..(MaxStart + MaxDur + MaxDur + 1)

\* C10: is_visible_at(t) holds exactly for start_time <= t < start_time +
\* duration: not just before the start, at the start and just before the
\* end when the duration is positive, not at the end.
C10_VisibleWindow ==
    /\ \A t \in ProbeTimes :
         is_visible_at(video, t) <=>
           (video.start_time <= t /\ t < video.start_time + video.duration)
    /\ ~is_visible_at(video, video.start_time - 1)
    /\ ~is_visible_at(video, video.start_time + video.duration)
    /\ video.duration > 0 =>
         /\ is_visible_at(video, video.start_time)
         /\ is_visible_at(video, video.start_time + video.duration - 1)

\* start_at(1) then set_duration(2): visible at 1 and 2, not at 0 or 3
C10_Witness ==
    /\ call = [op |-> "set_duration", arg |-> 2]
    /\ video.start_time = 1
    /\ video.duration = 2
    /\ is_visible_at(video, 1)
    /\ is_visible_at(video, 2)
    /\ ~is_visible_at(video, 0)
    /\ ~is_visible_at(video, 3)

====
